---- MODULE Spec2Model ----
(***************************************************************************)
(* A model of aws_saml_auth/configuration.py: the Configuration object     *)
(* (options, SAML cache, token cache), the config file, the credentials    *)
(* file and the SAML cache file it reads and writes, and the file locks    *)
(* that order the writers of several processes.                            *)
(*                                                                         *)
(* Python values are records [t, v]: t is the class ("none", "bool",       *)
(* "int", "str", "bytes", "dt" for a timezone-aware datetime, "naive" for  *)
(* a datetime without timezone), v the value.  A file is a record          *)
(* [exists, secs, text]: secs is what configparser finds in it (section -> *)
(* key -> string), text is content that is not in the INI format.          *)
(***************************************************************************)
EXTENDS Integers, Sequences, FiniteSets, TLC

VARIABLES
    fs,      \* path -> file
    env,     \* the credentials_file setting of the botocore session
    lock,    \* path -> the processes holding FileLock(path + ".lock")
    now,     \* the wall clock, datetime.now(tz.UTC)
    opt,     \* process -> the options of its Configuration
    saml,    \* process -> Configuration.__saml_cache
    tok,     \* process -> Configuration.__token_cache
    pc,      \* process -> its position in the operation it runs
    op,      \* process -> the operation it runs, or ran last
    arg,     \* process -> the argument of that operation
    parser,  \* process -> the RawConfigParser of that operation
    ret,     \* process -> what the last finished operation returned
    err,     \* process -> the exception the operation raised, or NoErr
    pend,    \* process -> the exception pending while a finally block runs
    pre      \* process -> the file as it was when the process took its lock

vars == <<fs, env, lock, now, opt, saml, tok, pc, op, arg, parser, ret, err,
          pend, pre>>

(***************************************************************************)
(* Bounds of the model.                                                    *)
(***************************************************************************)
NProcs == 2
MaxTime == 3

Procs == 1..NProcs
NoProc == {}
Times == 0..MaxTime

(***************************************************************************)
(* Python values.                                                          *)
(***************************************************************************)
None == [t |-> "none", v |-> 0]
PyBool(b) == [t |-> "bool", v |-> b]
PyInt(n) == [t |-> "int", v |-> n]
PyStr(s) == [t |-> "str", v |-> s]
PyBytes(s) == [t |-> "bytes", v |-> s]
AwareTime(n) == [t |-> "dt", v |-> n]
NaiveTime(n) == [t |-> "naive", v |-> n]

NoErr == "ok"

Digit(d) ==
    CASE d = 0 -> "0" [] d = 1 -> "1" [] d = 2 -> "2" [] d = 3 -> "3"
      [] d = 4 -> "4" [] d = 5 -> "5" [] d = 6 -> "6" [] d = 7 -> "7"
      [] d = 8 -> "8" [] d = 9 -> "9"

RECURSIVE IntStr(_)
IntStr(n) == IF n < 10 THEN Digit(n) ELSE IntStr(n \div 10) \o Digit(n % 10)

\* datetime.isoformat()
IsoFormat(d) == IF d.t = "dt" THEN IntStr(d.v) \o "+00:00" ELSE IntStr(d.v)

\* str(x), as RawConfigParser.write applies it to every value
Str(x) ==
    CASE x.t = "none" -> "None"
      [] x.t = "bool" -> (IF x.v THEN "True" ELSE "False")
      [] x.t = "int" -> IntStr(x.v)
      [] x.t \in {"dt", "naive"} -> IsoFormat(x)
      [] OTHER -> x.v

\* str.lower(), on the words of the model
Lower(s) ==
    CASE s = "True" -> "true"
      [] s = "False" -> "false"
      [] s = "Default" -> "default"
      [] s = "None" -> "none"
      [] OTHER -> s

(***************************************************************************)
(* The constants of the program.                                           *)
(***************************************************************************)
max_duration == 43200
MinDuration == 900
DefaultPort == 8000

\* The integers and the times a string of the model can spell.
KnownInts == {MinDuration - 1, MinDuration, max_duration, max_duration + 1,
              DefaultPort}

\* The strings configparser's getboolean accepts (RawConfigParser.BOOLEAN_STATES).
TrueWords == {"1", "yes", "true", "on"}
FalseWords == {"0", "no", "false", "off"}

\* A conversion's result: the value, or the exception it raises.
Ok(x) == [ok |-> TRUE, val |-> x, exc |-> NoErr]
Raise(e) == [ok |-> FALSE, val |-> None, exc |-> e]

\* SectionProxy.get(key, None): the string on disk, or the fallback None
Get(sec, key) == IF key \in DOMAIN sec THEN sec[key] ELSE None

\* SectionProxy.getboolean(key, None): the fallback covers a missing key only;
\* a value that is no boolean word raises ValueError.
GetBoolean(sec, key) ==
    IF key \notin DOMAIN sec THEN Ok(None)
    ELSE IF Lower(Str(sec[key])) \in TrueWords THEN Ok(PyBool(TRUE))
    ELSE IF Lower(Str(sec[key])) \in FalseWords THEN Ok(PyBool(FALSE))
    ELSE Raise("ValueError")

\* SectionProxy.getint(key, None): int(value), ValueError when it is no integer
GetInt(sec, key) ==
    IF key \notin DOMAIN sec THEN Ok(None)
    ELSE IF \E n \in KnownInts : IntStr(n) = Str(sec[key])
         THEN Ok(PyInt(CHOOSE n \in KnownInts : IntStr(n) = Str(sec[key])))
    ELSE Raise("ValueError")

\* A parse that drops the UTC offset
FromIsoFormatNaive(s) ==
    IF \E n \in Times : s \in {IsoFormat(AwareTime(n)), IsoFormat(NaiveTime(n))}
    THEN Ok(NaiveTime(CHOOSE n \in Times :
                         s \in {IsoFormat(AwareTime(n)), IsoFormat(NaiveTime(n))}))
    ELSE Raise("ValueError")

\* datetime.fromisoformat(s)
FromIsoFormat(s) ==
    IF \E n \in Times : s = IsoFormat(AwareTime(n))
    THEN Ok(AwareTime(CHOOSE n \in Times : s = IsoFormat(AwareTime(n))))
    ELSE IF \E n \in Times : s = IsoFormat(NaiveTime(n))
    THEN Ok(NaiveTime(CHOOSE n \in Times : s = IsoFormat(NaiveTime(n))))
    ELSE Raise("ValueError")

\* util.Util.coalesce: the first argument that is not None
Coalesce(a, b) == IF a # None THEN a ELSE b

\* util.Util.unicode_to_string_if_needed: a str stays as it is
UnicodeToString(x) == x

\* amazon.Amazon.is_valid_saml_assertion: None is invalid, a blob is valid when
\* it is a well-formed assertion
WellFormedBlob == "<Assertion/>"
MalformedBlob == "<Asser"
IsValidSamlAssertion(blob) == blob # None /\ blob.v = WellFormedBlob

(***************************************************************************)
(* Files and the RawConfigParser.                                          *)
(***************************************************************************)
NoFile == [exists |-> FALSE, secs |-> <<>>, text |-> ""]
EmptyFile == [exists |-> TRUE, secs |-> <<>>, text |-> ""]
IniFile(secs) == [exists |-> TRUE, secs |-> secs, text |-> ""]
TextFile(text) == [exists |-> TRUE, secs |-> <<>>, text |-> text]

\* util.Util.touch: creates the file, empty, when it is missing
Touch(file) == IF file.exists THEN file ELSE EmptyFile

\* An open that leaves the head of a line in the file
OpenForWritePartial(file) == TextFile("[pro")

\* open(path, "w") and open(path, "w+"): the file is created or truncated
OpenForWrite(file) == EmptyFile

\* f.read() of a text file: the text (an INI file reads as its own text)
IniText == "[ini]"
ReadText(file) == IF file.secs = <<>> THEN file.text ELSE IniText

\* A parser that starts from nothing instead of the file's sections
ParserReadNothing(file) == Ok(<<>>)

\* RawConfigParser.read(path): a missing file is skipped; text without a
\* section header raises; every value read is a str
ParserRead(file) ==
    IF ~file.exists THEN Ok(<<>>)
    ELSE IF file.text # "" THEN Raise("ParsingError")
    ELSE Ok([s \in DOMAIN file.secs |->
                [k \in DOMAIN file.secs[s] |-> PyStr(file.secs[s][k])]])

HasSection(P, s) == s \in DOMAIN P

AddSection(P, s) == [x \in DOMAIN P \cup {s} |-> IF x \in DOMAIN P THEN P[x] ELSE <<>>]

\* RawConfigParser.set(section, key, value): the value is kept as it is
ParserSet(P, s, k, val) ==
    [P EXCEPT ![s] = [x \in DOMAIN P[s] \cup {k} |-> IF x = k THEN val ELSE P[s][x]]]

\* RawConfigParser.write(f): every value goes through str()
ParserWrite(P) == IniFile([s \in DOMAIN P |-> [k \in DOMAIN P[s] |-> Str(P[s][k])]])

(***************************************************************************)
(* Paths.  A path is a sequence of tokens, so that str.replace of the      *)
(* token "credentials" is a replacement of an element.                     *)
(***************************************************************************)
config_file == <<"~/.aws/", "config">>

\* The credentials_file setting: its default, and a file named otherwise
DefaultCredentialsFile == <<"~/.aws/", "credentials">>
CustomCredentialsFile == <<"~/.aws/", "creds">>
CredentialPaths == {DefaultCredentialsFile, CustomCredentialsFile}

\* Configuration.credentials_file: the setting of the session
credentials_file == env

\* str.replace(old, new): every occurrence is replaced, none is no change
Replace(path, old, new) ==
    [i \in DOMAIN path |-> IF path[i] = old THEN new ELSE path[i]]

\* hashlib.sha1(login_url).hexdigest(): one digest per URL
Sha1Hex(url) == "sha1:" \o url

\* Configuration.saml_cache_file (login_url is not None)
saml_cache_file(login_url) ==
    Replace(credentials_file, "credentials",
            "saml_cache_" \o Sha1Hex(login_url.v) \o ".xml")

\* Configuration.config_profile
config_profile(profile) ==
    IF Lower(Str(profile)) = "default" THEN Str(profile)
    ELSE "profile " \o Str(profile)

(***************************************************************************)
(* The Configuration object.                                               *)
(***************************************************************************)
\* Configuration.__init__: the defaults
DefaultOptions ==
    [ask_role |-> PyBool(TRUE), duration |-> PyInt(max_duration),
     auto_duration |-> PyBool(FALSE), login_url |-> None,
     profile |-> PyStr("default"), region |-> None, role_arn |-> None,
     use_saml_cache |-> PyBool(TRUE), resolve_aliases |-> PyBool(TRUE),
     print_creds |-> PyBool(FALSE), credential_process |-> PyBool(FALSE),
     quiet |-> PyBool(FALSE), account |-> PyStr(""), port |-> PyInt(DefaultPort)]

OptionNames == DOMAIN DefaultOptions

\* '"arn:aws:iam::" in role_arn or "arn:aws-us-gov:iam::" in role_arn', on the
\* strings of the model
AwsArn == "arn:aws:iam::1:role/dev"
GovArn == "arn:aws-us-gov:iam::1:role/dev"
ContainsArnPrefix(s) == s \in {AwsArn, GovArn}

\* A validation whose lower bound is exclusive
raise_if_invalid_exclusive(o) ==
    IF o.ask_role.t # "bool" THEN "ask_role"
    ELSE IF o.duration.t # "int" THEN "duration type"
    ELSE IF ~(o.duration.v > MinDuration) THEN "duration min"
    ELSE IF ~(o.duration.v <= max_duration) THEN "duration max"
    ELSE IF o.auto_duration.t # "bool" THEN "auto_duration"
    ELSE IF o.profile.t # "str" THEN "profile"
    ELSE IF o.region.t # "str" THEN "region"
    ELSE IF o.login_url = None THEN "login_url"
    ELSE IF o.role_arn # None /\ o.role_arn.t # "str" THEN "role_arn type"
    ELSE IF o.role_arn # None /\ ~ContainsArnPrefix(o.role_arn.v) THEN "role_arn prefix"
    ELSE IF o.quiet.t # "bool" THEN "quiet"
    ELSE IF o.account.t # "str" THEN "account"
    ELSE IF o.port.t # "int" THEN "port"
    ELSE NoErr

\* A validation that looks at login_url before it looks at region
raise_if_invalid_url_first(o) ==
    IF o.ask_role.t # "bool" THEN "ask_role"
    ELSE IF o.duration.t # "int" THEN "duration type"
    ELSE IF ~(o.duration.v >= MinDuration) THEN "duration min"
    ELSE IF ~(o.duration.v <= max_duration) THEN "duration max"
    ELSE IF o.auto_duration.t # "bool" THEN "auto_duration"
    ELSE IF o.profile.t # "str" THEN "profile"
    ELSE IF o.login_url = None THEN "login_url"
    ELSE IF o.region.t # "str" THEN "region"
    ELSE IF o.role_arn # None /\ o.role_arn.t # "str" THEN "role_arn type"
    ELSE IF o.role_arn # None /\ ~ContainsArnPrefix(o.role_arn.v) THEN "role_arn prefix"
    ELSE IF o.quiet.t # "bool" THEN "quiet"
    ELSE IF o.account.t # "str" THEN "account"
    ELSE IF o.port.t # "int" THEN "port"
    ELSE NoErr

\* Configuration.raise_if_invalid: the first assertion that fails, or NoErr
raise_if_invalid(o) ==
    IF o.ask_role.t # "bool" THEN "ask_role"
    ELSE IF o.duration.t # "int" THEN "duration type"
    ELSE IF ~(o.duration.v >= MinDuration) THEN "duration min"
    ELSE IF ~(o.duration.v <= max_duration) THEN "duration max"
    ELSE IF o.auto_duration.t # "bool" THEN "auto_duration"
    ELSE IF o.profile.t # "str" THEN "profile"
    ELSE IF o.region.t # "str" THEN "region"
    ELSE IF o.login_url = None THEN "login_url"
    ELSE IF o.role_arn # None /\ o.role_arn.t # "str" THEN "role_arn type"
    ELSE IF o.role_arn # None /\ ~ContainsArnPrefix(o.role_arn.v) THEN "role_arn prefix"
    ELSE IF o.quiet.t # "bool" THEN "quiet"
    ELSE IF o.account.t # "str" THEN "account"
    ELSE IF o.port.t # "int" THEN "port"
    ELSE NoErr

\* Configuration.token_cache: the test that clears the record.  Comparing a
\* datetime without timezone with datetime.now(tz.UTC) raises TypeError.
TokenCheck(token, clock) ==
    IF token.Expiration = None THEN Ok(TRUE)
    ELSE IF token.Expiration.t = "naive" THEN Raise("TypeError")
    ELSE Ok(\/ token.Expiration.v <= clock
            \/ token.AccessKeyId = None
            \/ token.SecretAccessKey = None)

\* The keys of the config file's section, and those write() sets
ConfigKeys == {"region", "asa.ask_role", "asa.duration", "asa.login_url", "asa.role_arn"}

\* Configuration.write, lines 212-221: the section of the profile, upserted
UpsertConfig(P, o) ==
    LET profile == config_profile(o.profile)
        P0 == IF HasSection(P, profile) THEN P ELSE AddSection(P, profile)
        P1 == ParserSet(P0, profile, "region", o.region)
        P2 == ParserSet(P1, profile, "asa.ask_role", o.ask_role)
        P3 == ParserSet(P2, profile, "asa.duration", o.duration)
        P4 == ParserSet(P3, profile, "asa.login_url", o.login_url)
    IN  ParserSet(P4, profile, "asa.role_arn", o.role_arn)

\* amazon_object.expiration.isoformat()
ExpirationIso(amz) ==
    IF amz.expiration.t \in {"dt", "naive"} THEN Ok(PyStr(IsoFormat(amz.expiration)))
    ELSE Raise("AttributeError")

PlainKeys == {"aws_access_key_id", "aws_secret_access_key", "aws_security_token",
              "aws_session_expiration", "aws_session_token"}
AsaKeys == {"asa.aws_access_key_id", "asa.aws_secret_access_key",
            "asa.aws_session_expiration", "asa.aws_session_token"}

\* Configuration.write, lines 235-257: the credentials section, upserted
UpsertCredentials(P, o, amz) ==
    LET profile == o.profile.v
        P0 == IF HasSection(P, profile) THEN P ELSE AddSection(P, profile)
        P1 == ParserSet(P0, profile, "aws_access_key_id", amz.access_key_id)
        P2 == ParserSet(P1, profile, "aws_secret_access_key", amz.secret_access_key)
        P3 == ParserSet(P2, profile, "aws_security_token", amz.session_token)
        P4 == ParserSet(P3, profile, "aws_session_expiration", ExpirationIso(amz).val)
    IN  ParserSet(P4, profile, "aws_session_token", amz.session_token)

\* A token cache stored under the plain keys
UpsertTokenCachePlain(P, o, amz) ==
    LET profile == o.profile.v
        P0 == IF HasSection(P, profile) THEN P ELSE AddSection(P, profile)
        P1 == ParserSet(P0, profile, "aws_access_key_id", amz.access_key_id)
        P2 == ParserSet(P1, profile, "aws_secret_access_key", amz.secret_access_key)
        P3 == ParserSet(P2, profile, "aws_session_expiration", ExpirationIso(amz).val)
    IN  ParserSet(P3, profile, "aws_session_token", amz.session_token)

\* Configuration.write_token_cache, lines 287-306
UpsertTokenCache(P, o, amz) ==
    LET profile == o.profile.v
        P0 == IF HasSection(P, profile) THEN P ELSE AddSection(P, profile)
        P1 == ParserSet(P0, profile, "asa.aws_access_key_id", amz.access_key_id)
        P2 == ParserSet(P1, profile, "asa.aws_secret_access_key", amz.secret_access_key)
        P3 == ParserSet(P2, profile, "asa.aws_session_expiration", ExpirationIso(amz).val)
    IN  ParserSet(P3, profile, "asa.aws_session_token", amz.session_token)

\* Configuration.read, lines 329-364: the options after the assignments that
\* ran, and the exception that ended them
ReadAssign(o, P, profile) ==
    LET ps == config_profile(profile) IN
    IF ~HasSection(P, ps) THEN [opt |-> o, exc |-> NoErr]
    ELSE
    LET sec == P[ps]
        o0 == [o EXCEPT !.profile = profile]
        b == GetBoolean(sec, "asa.ask_role")
        o1 == [o0 EXCEPT !.ask_role = Coalesce(b.val, o0.ask_role)]
        d == GetInt(sec, "asa.duration")
        o2 == [o1 EXCEPT !.duration = Coalesce(d.val, o1.duration)]
        o3 == [o2 EXCEPT !.login_url =
                  Coalesce(UnicodeToString(Get(sec, "asa.login_url")), o2.login_url)]
        o4 == [o3 EXCEPT !.region =
                  Coalesce(UnicodeToString(Get(sec, "region")), o3.region)]
        o5 == [o4 EXCEPT !.role_arn =
                  Coalesce(UnicodeToString(Get(sec, "asa.role_arn")), o4.role_arn)]
        o6 == [o5 EXCEPT !.account =
                  Coalesce(UnicodeToString(Get(sec, "account")), o5.account)]
    IN  IF ~b.ok THEN [opt |-> o0, exc |-> b.exc]
        ELSE IF ~d.ok THEN [opt |-> o1, exc |-> d.exc]
        ELSE [opt |-> o6, exc |-> NoErr]

\* Configuration.read_token_cache, lines 384-405: the token record read from
\* the profile's section, or what stops the read
ReadToken(P, o) ==
    LET sec == P[o.profile.v]
        read_expiration == UnicodeToString(Get(sec, "asa.aws_session_expiration"))
        e == IF read_expiration # None THEN FromIsoFormat(read_expiration.v)
             ELSE Ok(None)
    IN  IF ~e.ok THEN e
        ELSE Ok([AccessKeyId |-> UnicodeToString(Get(sec, "asa.aws_access_key_id")),
                 SecretAccessKey |-> UnicodeToString(Get(sec, "asa.aws_secret_access_key")),
                 SessionToken |-> UnicodeToString(Get(sec, "asa.aws_session_token")),
                 Expiration |-> e.val])

(***************************************************************************)
(* Operations.  A process is a single thread: it runs one operation at a   *)
(* time, pc = "idle" between two.  The accessors and the operations that   *)
(* touch the disk at most once are one step; the others are one step per   *)
(* access to the disk or to a lock.                                        *)
(***************************************************************************)
\* An operation that begins and ends in this step
Atomic(p, name, a, r, e) ==
    /\ pc[p] = "idle"
    /\ op' = [op EXCEPT ![p] = name]
    /\ arg' = [arg EXCEPT ![p] = a]
    /\ ret' = [ret EXCEPT ![p] = r]
    /\ err' = [err EXCEPT ![p] = e]
    /\ UNCHANGED <<lock, now, env, pc, parser, pend, pre>>

\* An operation that begins: its first step is taken from pc = first
Begin(p, name, a, first) ==
    /\ pc[p] = "idle"
    /\ op' = [op EXCEPT ![p] = name]
    /\ arg' = [arg EXCEPT ![p] = a]
    /\ err' = [err EXCEPT ![p] = NoErr]
    /\ pend' = [pend EXCEPT ![p] = NoErr]
    /\ pc' = [pc EXCEPT ![p] = first]
    /\ UNCHANGED <<fs, lock, now, env, opt, saml, tok, parser, ret, pre>>

\* The operation returns, or raises e
Finish(p, e) ==
    /\ pc' = [pc EXCEPT ![p] = "idle"]
    /\ err' = [err EXCEPT ![p] = e]
    /\ ret' = [ret EXCEPT ![p] = None]
    /\ parser' = [parser EXCEPT ![p] = <<>>]
    /\ pre' = [pre EXCEPT ![p] = NoFile]

Goto(p, to) ==
    /\ pc' = [pc EXCEPT ![p] = to]
    /\ UNCHANGED <<err, ret>>

\* The clock advances
Tick ==
    /\ now < MaxTime
    /\ now' = now + 1
    /\ UNCHANGED <<fs, env, lock, opt, saml, tok, pc, op, arg, parser, ret, err,
                   pend, pre>>

\* The caller assigns an option
SetOption(p, name, value) ==
    /\ Atomic(p, "set", value, None, NoErr)
    /\ opt' = [opt EXCEPT ![p][name] = value]
    /\ UNCHANGED <<fs, saml, tok>>

\* Configuration.saml_cache, the setter
SetSamlCache(p, value) ==
    /\ Atomic(p, "saml_cache=", value, None, NoErr)
    /\ saml' = [saml EXCEPT ![p] = value]
    /\ UNCHANGED <<fs, opt, tok>>

\* An accessor that hands out the stored blob without checking it
saml_cache_unchecked(p) ==
    /\ Atomic(p, "saml_cache", None, saml[p], NoErr)
    /\ UNCHANGED <<fs, opt, saml, tok>>

\* Configuration.saml_cache, the accessor
saml_cache(p) ==
    LET kept == IF ~IsValidSamlAssertion(saml[p]) THEN None ELSE saml[p] IN
    /\ Atomic(p, "saml_cache", None, kept, NoErr)
    /\ saml' = [saml EXCEPT ![p] = kept]
    /\ UNCHANGED <<fs, opt, tok>>

\* Configuration.token_cache, the accessor
token_cache(p) ==
    LET c == IF tok[p] # None THEN TokenCheck(tok[p], now) ELSE Ok(FALSE)
        kept == IF c.ok /\ c.val THEN None ELSE tok[p]
    IN  /\ Atomic(p, "token_cache", None, IF c.ok THEN kept ELSE None, c.exc)
        /\ tok' = [tok EXCEPT ![p] = kept]
        /\ UNCHANGED <<fs, opt, saml>>

\* Configuration.raise_if_invalid
RaiseIfInvalid(p) ==
    /\ Atomic(p, "raise_if_invalid", None, None, raise_if_invalid(opt[p]))
    /\ UNCHANGED <<fs, opt, saml, tok>>

\* Configuration.read_saml_cache
read_saml_cache(p) ==
    LET file == fs[saml_cache_file(opt[p].login_url)] IN
    /\ Atomic(p, "read_saml_cache", None, None, NoErr)
    /\ saml' = [saml EXCEPT ![p] =
                   IF opt[p].login_url = None \/ ~file.exists THEN saml[p]
                   ELSE PyBytes(ReadText(file))]
    /\ UNCHANGED <<fs, opt, tok>>

\* Configuration.read_token_cache
read_token_cache(p) ==
    LET P == ParserRead(fs[credentials_file])
        t == IF P.ok /\ opt[p].profile # None /\ HasSection(P.val, opt[p].profile.v)
             THEN ReadToken(P.val, opt[p]) ELSE Ok(tok[p])
        e == IF opt[p].profile = None THEN "AssertionError"
             ELSE IF ~P.ok THEN P.exc ELSE t.exc
    IN  /\ Atomic(p, "read_token_cache", None, None, e)
        /\ tok' = [tok EXCEPT ![p] = IF e = NoErr THEN t.val ELSE tok[p]]
        /\ UNCHANGED <<fs, opt, saml>>

(***************************************************************************)
(* The steps of the operations that lock and write.                        *)
(***************************************************************************)
\* A lock that does not wait for its holder
AcquireNoWait(p, from, path, to) ==
    /\ pc[p] = from
    /\ lock' = [lock EXCEPT ![path] = {p}]
    /\ pre' = [pre EXCEPT ![p] = fs[path]]
    /\ Goto(p, to)
    /\ UNCHANGED <<fs, now, env, opt, saml, tok, op, arg, parser, pend>>

\* filelock.FileLock(path + ".lock").acquire(): blocks while another holds it
Acquire(p, from, path, to) ==
    /\ pc[p] = from
    /\ lock[path] = NoProc
    /\ lock' = [lock EXCEPT ![path] = {p}]
    /\ pre' = [pre EXCEPT ![p] = fs[path]]
    /\ Goto(p, to)
    /\ UNCHANGED <<fs, now, env, opt, saml, tok, op, arg, parser, pend>>

\* open(path, "w+"), inside the lock
Open(p, from, path, to) ==
    /\ pc[p] = from
    /\ fs' = [fs EXCEPT ![path] = OpenForWrite(fs[path])]
    /\ Goto(p, to)
    /\ UNCHANGED <<lock, now, env, opt, saml, tok, op, arg, parser, pend, pre>>

\* parser.write(f) and the close of f
Flush(p, from, path, to) ==
    /\ pc[p] = from
    /\ fs' = [fs EXCEPT ![path] = ParserWrite(parser[p])]
    /\ Goto(p, to)
    /\ UNCHANGED <<lock, now, env, opt, saml, tok, op, arg, parser, pend, pre>>

\* Configuration.ensure_config_files_exist, the config file
EnsureConfig(p) ==
    /\ pc[p] = "ens_cfg"
    /\ fs' = [fs EXCEPT ![config_file] = Touch(fs[config_file])]
    /\ Goto(p, "ens_cred")
    /\ UNCHANGED <<lock, now, env, opt, saml, tok, op, arg, parser, pend, pre>>

\* Configuration.ensure_config_files_exist, the credentials file, and what the
\* operation does before its next access to the disk
EnsureCredentials(p) ==
    /\ pc[p] = "ens_cred"
    /\ fs' = [fs EXCEPT ![credentials_file] = Touch(fs[credentials_file])]
    /\ CASE op[p] = "read" -> Goto(p, "r_parse") /\ UNCHANGED <<parser, pre>>
         [] op[p] = "write" ->
              IF opt[p].profile = None THEN Finish(p, "AssertionError")
              ELSE Goto(p, "w_cfg_acq") /\ UNCHANGED <<parser, pre>>
         [] op[p] = "write_saml_cache" ->
              IF saml[p] = None THEN Finish(p, NoErr)
              ELSE IF opt[p].login_url = None THEN Finish(p, "AssertionError")
              ELSE Goto(p, "s_acq") /\ UNCHANGED <<parser, pre>>
    /\ UNCHANGED <<lock, now, env, opt, saml, tok, op, arg, pend>>

\* Configuration.read(profile)
CallRead(p, profile) == Begin(p, "read", profile, "ens_cfg")

ReadParse(p) ==
    LET P == ParserRead(fs[config_file])
        r == IF P.ok THEN ReadAssign(opt[p], P.val, arg[p])
             ELSE [opt |-> opt[p], exc |-> P.exc]
    IN  /\ pc[p] = "r_parse"
        /\ opt' = [opt EXCEPT ![p] = r.opt]
        /\ Finish(p, r.exc)
        /\ UNCHANGED <<fs, lock, now, env, saml, tok, op, arg, pend>>

\* Configuration.write(amazon_object)
CallWrite(p, amz) == Begin(p, "write", amz, "ens_cfg")

WriteConfigAcquire(p) == Acquire(p, "w_cfg_acq", config_file, "w_cfg_read")

WriteConfigRead(p) ==
    LET P == ParserRead(fs[config_file]) IN
    /\ pc[p] = "w_cfg_read"
    /\ IF P.ok
       THEN /\ parser' = [parser EXCEPT ![p] = UpsertConfig(P.val, opt[p])]
            /\ Goto(p, "w_cfg_open")
            /\ UNCHANGED pend
       ELSE /\ pend' = [pend EXCEPT ![p] = P.exc]
            /\ Goto(p, "w_cfg_rel")
            /\ UNCHANGED parser
    /\ UNCHANGED <<fs, lock, now, env, opt, saml, tok, op, arg, pre>>

WriteConfigOpen(p) == Open(p, "w_cfg_open", config_file, "w_cfg_write")

WriteConfigFlush(p) == Flush(p, "w_cfg_write", config_file, "w_cfg_rel")

\* A write() that gives up the credentials when the config section failed
WriteConfigReleaseAbort(p) ==
    /\ pc[p] = "w_cfg_rel"
    /\ lock' = [lock EXCEPT ![config_file] = NoProc]
    /\ IF arg[p] = None \/ pend[p] # NoErr THEN Finish(p, pend[p])
       ELSE Goto(p, "w_cred_acq") /\ UNCHANGED <<parser, pre>>
    /\ UNCHANGED <<fs, now, env, opt, saml, tok, op, arg, pend>>

\* A write() that asks for the credentials lock while it keeps the config lock
WriteConfigReleaseLate(p) ==
    /\ pc[p] = "w_cfg_rel"
    /\ IF arg[p] = None
       THEN lock' = [lock EXCEPT ![config_file] = NoProc] /\ Finish(p, pend[p])
       ELSE UNCHANGED lock /\ Goto(p, "w_cred_acq") /\ UNCHANGED <<parser, pre>>
    /\ UNCHANGED <<fs, now, env, opt, saml, tok, op, arg, pend>>

\* finally: config_file_lock.release(), then the credentials if there are any
WriteConfigRelease(p) ==
    /\ pc[p] = "w_cfg_rel"
    /\ lock' = [lock EXCEPT ![config_file] = NoProc]
    /\ IF arg[p] = None THEN Finish(p, pend[p])
       ELSE Goto(p, "w_cred_acq") /\ UNCHANGED <<parser, pre>>
    /\ UNCHANGED <<fs, now, env, opt, saml, tok, op, arg, pend>>

WriteCredentialsAcquire(p) == Acquire(p, "w_cred_acq", credentials_file, "w_cred_read")

WriteCredentialsRead(p) ==
    LET P == ParserRead(fs[credentials_file])
        e == IF ~P.ok THEN P.exc ELSE ExpirationIso(arg[p]).exc
    IN  /\ pc[p] = "w_cred_read"
        /\ IF e = NoErr
           THEN /\ parser' = [parser EXCEPT ![p] = UpsertCredentials(P.val, opt[p], arg[p])]
                /\ Goto(p, "w_cred_open")
                /\ UNCHANGED pend
           ELSE /\ pend' = [pend EXCEPT ![p] = e]
                /\ Goto(p, "w_cred_rel")
                /\ UNCHANGED parser
        /\ UNCHANGED <<fs, lock, now, env, opt, saml, tok, op, arg, pre>>

WriteCredentialsOpen(p) == Open(p, "w_cred_open", credentials_file, "w_cred_write")

WriteCredentialsFlush(p) == Flush(p, "w_cred_write", credentials_file, "w_cred_rel")

WriteCredentialsRelease(p) ==
    /\ pc[p] = "w_cred_rel"
    /\ lock' = [lock EXCEPT ![credentials_file] = NoProc]
    /\ Finish(p, pend[p])
    /\ UNCHANGED <<fs, now, env, opt, saml, tok, op, arg, pend>>

\* Configuration.write_token_cache(amazon_object)
CallWriteTokenCache(p, amz) ==
    /\ Begin(p, "write_token_cache", amz, "t_assert")

TokenAssert(p) ==
    /\ pc[p] = "t_assert"
    /\ IF opt[p].profile = None \/ arg[p] = None THEN Finish(p, "AssertionError")
       ELSE Goto(p, "t_acq") /\ UNCHANGED <<parser, pre>>
    /\ UNCHANGED <<fs, lock, now, env, opt, saml, tok, op, arg, pend>>

TokenAcquire(p) == Acquire(p, "t_acq", credentials_file, "t_read")

TokenRead(p) ==
    LET P == ParserRead(fs[credentials_file])
        e == IF ~P.ok THEN P.exc ELSE ExpirationIso(arg[p]).exc
    IN  /\ pc[p] = "t_read"
        /\ IF e = NoErr
           THEN /\ parser' = [parser EXCEPT ![p] = UpsertTokenCache(P.val, opt[p], arg[p])]
                /\ Goto(p, "t_open")
                /\ UNCHANGED pend
           ELSE /\ pend' = [pend EXCEPT ![p] = e]
                /\ Goto(p, "t_rel")
                /\ UNCHANGED parser
        /\ UNCHANGED <<fs, lock, now, env, opt, saml, tok, op, arg, pre>>

TokenOpen(p) == Open(p, "t_open", credentials_file, "t_write")

TokenFlush(p) == Flush(p, "t_write", credentials_file, "t_rel")

TokenRelease(p) ==
    /\ pc[p] = "t_rel"
    /\ lock' = [lock EXCEPT ![credentials_file] = NoProc]
    /\ Finish(p, pend[p])
    /\ UNCHANGED <<fs, now, env, opt, saml, tok, op, arg, pend>>

\* Configuration.write_saml_cache()
CallWriteSamlCache(p) == Begin(p, "write_saml_cache", None, "ens_cfg")

SamlAcquire(p) ==
    Acquire(p, "s_acq", saml_cache_file(opt[p].login_url), "s_open")

SamlOpen(p) ==
    Open(p, "s_open", saml_cache_file(opt[p].login_url), "s_write")

\* f.write(self.__saml_cache.decode("utf-8")) and the close of f: only bytes
\* have decode(), and the file is open, so truncated, when it is called
SamlFlush(p) ==
    /\ pc[p] = "s_write"
    /\ IF saml[p].t = "bytes"
       THEN /\ fs' = [fs EXCEPT ![saml_cache_file(opt[p].login_url)] =
                                    TextFile(saml[p].v)]
            /\ UNCHANGED pend
       ELSE /\ pend' = [pend EXCEPT ![p] = "AttributeError"]
            /\ UNCHANGED fs
    /\ Goto(p, "s_rel")
    /\ UNCHANGED <<lock, now, env, opt, saml, tok, op, arg, parser, pre>>

\* A release that is skipped when the write failed
SamlReleaseOnSuccess(p) ==
    /\ pc[p] = "s_rel"
    /\ lock' = [lock EXCEPT ![saml_cache_file(opt[p].login_url)] =
                    IF pend[p] = NoErr THEN NoProc ELSE @]
    /\ Finish(p, pend[p])
    /\ UNCHANGED <<fs, now, env, opt, saml, tok, op, arg, pend>>

SamlRelease(p) ==
    /\ pc[p] = "s_rel"
    /\ lock' = [lock EXCEPT ![saml_cache_file(opt[p].login_url)] = NoProc]
    /\ Finish(p, pend[p])
    /\ UNCHANGED <<fs, now, env, opt, saml, tok, op, arg, pend>>

(***************************************************************************)
(* The values the model draws from.                                        *)
(***************************************************************************)
IdpUrl == "https://idp.example.com/sso"
LoginUrlStrings == {IdpUrl, "None"}
ProfileNames == {"default", "work"}

Paths ==
    {config_file} \cup CredentialPaths
        \cup {Replace(c, "credentials", "saml_cache_" \o Sha1Hex(u) \o ".xml") :
                 c \in CredentialPaths, u \in LoginUrlStrings}

\* The credential record the STS collaborator hands to process p
AmazonOf(p) ==
    [access_key_id |-> PyStr("AKIA" \o IntStr(p)),
     secret_access_key |-> PyStr("secret" \o IntStr(p)),
     session_token |-> PyStr("token" \o IntStr(p)),
     expiration |-> AwareTime(MaxTime)]

\* The options of process p, once its command line is applied
OptionsOf(p, profile) ==
    [DefaultOptions EXCEPT !.profile = PyStr(profile),
                           !.region = PyStr("region-" \o IntStr(p)),
                           !.login_url = PyStr(IdpUrl),
                           !.ask_role = PyBool(p % 2 = 0),
                           !.duration = PyInt(IF p % 2 = 0 THEN MinDuration ELSE max_duration),
                           !.role_arn = IF p % 2 = 0 THEN PyStr(AwsArn) ELSE PyStr(GovArn)]

\* A config file and a credentials file that other tools wrote before
OldConfig ==
    IniFile([s \in {"profile work", "profile other"} |->
        IF s = "profile work"
        THEN [k \in {"region", "account", "output"} |->
                 CASE k = "region" -> "old-region" [] k = "account" -> "111"
                   [] OTHER -> "json"]
        ELSE [k \in {"region"} |-> "other-region"]])

OldCredentials ==
    IniFile([s \in {"work", "other"} |->
        IF s = "work"
        THEN [k \in {"aws_access_key_id", "asa.aws_access_key_id", "custom"} |->
                 CASE k = "aws_access_key_id" -> "OLDKEY"
                   [] k = "asa.aws_access_key_id" -> "OLDASA"
                   [] OTHER -> "keep"]
        ELSE [k \in {"aws_access_key_id"} |-> "OTHERKEY"]])

IdleProcs ==
    /\ lock = [f \in Paths |-> NoProc]
    /\ saml = [p \in Procs |-> None]
    /\ tok = [p \in Procs |-> None]
    /\ pc = [p \in Procs |-> "idle"]
    /\ op = [p \in Procs |-> "new"]
    /\ arg = [p \in Procs |-> None]
    /\ parser = [p \in Procs |-> <<>>]
    /\ ret = [p \in Procs |-> None]
    /\ err = [p \in Procs |-> NoErr]
    /\ pend = [p \in Procs |-> NoErr]
    /\ pre = [p \in Procs |-> NoFile]

(***************************************************************************)
(* Spec: several processes, each with its own profile and values; each     *)
(* writes the configuration with credentials, or the token cache.          *)
(***************************************************************************)
Init ==
    /\ IdleProcs
    /\ env = DefaultCredentialsFile
    /\ now = 0
    /\ \E c \in {NoFile, OldConfig}, d \in {NoFile, OldCredentials} :
          fs = [f \in Paths |-> IF f = config_file THEN c
                                ELSE IF f = credentials_file THEN d ELSE NoFile]
    /\ \E prof \in [Procs -> ProfileNames] :
          opt = [p \in Procs |-> OptionsOf(p, prof[p])]

WriteSteps(p) ==
    \/ EnsureConfig(p)
    \/ EnsureCredentials(p)
    \/ WriteConfigAcquire(p)
    \/ WriteConfigRead(p)
    \/ WriteConfigOpen(p)
    \/ WriteConfigFlush(p)
    \/ WriteConfigRelease(p)
    \/ WriteCredentialsAcquire(p)
    \/ WriteCredentialsRead(p)
    \/ WriteCredentialsOpen(p)
    \/ WriteCredentialsFlush(p)
    \/ WriteCredentialsRelease(p)

TokenSteps(p) ==
    \/ TokenAssert(p)
    \/ TokenAcquire(p)
    \/ TokenRead(p)
    \/ TokenOpen(p)
    \/ TokenFlush(p)
    \/ TokenRelease(p)

Next ==
    \E p \in Procs :
        \/ op[p] = "new" /\ CallWrite(p, AmazonOf(p))
        \/ op[p] = "new" /\ CallWriteTokenCache(p, AmazonOf(p))
        \/ WriteSteps(p)
        \/ TokenSteps(p)

Spec == Init /\ [][Next]_vars

(***************************************************************************)
(* What the files must hold.                                               *)
(***************************************************************************)
\* The strings process p's write() leaves in its config section
ExpectedConfig(p) ==
    [k \in ConfigKeys |->
        CASE k = "region" -> Str(opt[p].region)
          [] k = "asa.ask_role" -> Str(opt[p].ask_role)
          [] k = "asa.duration" -> Str(opt[p].duration)
          [] k = "asa.login_url" -> Str(opt[p].login_url)
          [] OTHER -> Str(opt[p].role_arn)]

\* The strings write(amz) leaves in the credentials section
ExpectedPlain(amz) ==
    [k \in PlainKeys |->
        CASE k = "aws_access_key_id" -> amz.access_key_id.v
          [] k = "aws_secret_access_key" -> amz.secret_access_key.v
          [] k = "aws_session_expiration" -> IsoFormat(amz.expiration)
          [] OTHER -> amz.session_token.v]

\* The strings write_token_cache(amz) leaves in the credentials section
ExpectedAsa(amz) ==
    [k \in AsaKeys |->
        CASE k = "asa.aws_access_key_id" -> amz.access_key_id.v
          [] k = "asa.aws_secret_access_key" -> amz.secret_access_key.v
          [] k = "asa.aws_session_expiration" -> IsoFormat(amz.expiration)
          [] OTHER -> amz.session_token.v]

\* Section s of the file holds every key of exp with exp's value
SectionHas(file, s, exp) ==
    /\ s \in DOMAIN file.secs
    /\ \A k \in DOMAIN exp : k \in DOMAIN file.secs[s] /\ file.secs[s][k] = exp[k]

\* new is old with the keys of exp upserted into section s, and nothing else
\* added, removed or changed
Upserted(old, new, s, exp) ==
    /\ DOMAIN new = DOMAIN old \cup {s}
    /\ \A x \in DOMAIN old \ {s} : new[x] = old[x]
    /\ DOMAIN new[s] = (IF s \in DOMAIN old THEN DOMAIN old[s] ELSE {}) \cup DOMAIN exp
    /\ \A k \in DOMAIN new[s] : new[s][k] = IF k \in DOMAIN exp THEN exp[k] ELSE old[s][k]

InConfigSection(p) == pc[p] \in {"w_cfg_read", "w_cfg_open", "w_cfg_write", "w_cfg_rel"}
InCredentialsSection(p) ==
    pc[p] \in {"w_cred_read", "w_cred_open", "w_cred_write", "w_cred_rel",
               "t_read", "t_open", "t_write", "t_rel"}

Finished(p, name) == op[p] = name /\ pc[p] = "idle" /\ err[p] = NoErr
Wrote(p) == Finished(p, "write")
WroteToken(p) == Finished(p, "write_token_cache")
ProfileOf(p) == opt[p].profile.v
Alone(p) == \A q \in Procs \ {p} : ProfileOf(q) # ProfileOf(p)

\* C1: two write() calls on one profile are serialized by the lock of each
\* file: no two processes are inside the read-modify-write section of the same
\* file at once, and once the write() calls on a profile have finished (and
\* no other writer holds the file's lock) the profile's section holds the
\* complete key set of one of these writes, never a mix of two.
C1_WritersSerialized ==
    /\ \A p, q \in Procs :
          p # q => /\ ~(InConfigSection(p) /\ InConfigSection(q))
                   /\ ~(InCredentialsSection(p) /\ InCredentialsSection(q))
    /\ \A s \in ProfileNames :
          LET W == {p \in Procs : Wrote(p) /\ ProfileOf(p) = s}
              Busy == {p \in Procs : op[p] = "write" /\ pc[p] # "idle" /\ ProfileOf(p) = s}
          IN
          W # {} /\ Busy = {} =>
            /\ lock[config_file] = NoProc =>
                  \E p \in W : SectionHas(fs[config_file], config_profile(PyStr(s)),
                                          ExpectedConfig(p))
            /\ lock[credentials_file] = NoProc =>
                  \E p \in W : SectionHas(fs[credentials_file], s,
                                          ExpectedPlain(AmazonOf(p)))

\* Two processes have both finished write() on the same profile.
C1_Witness ==
    \E p, q \in Procs :
        /\ p # q /\ Wrote(p) /\ Wrote(q) /\ ProfileOf(p) = ProfileOf(q)
        /\ \A r \in Procs : pc[r] = "idle"

\* C6: no update is lost.  Each flush leaves the file as it was when the lock
\* was taken, with the keys of the writer's own section upserted and nothing
\* else added, removed or changed; and once no write of a file is in progress,
\* the section of every process that is alone on its profile holds what that
\* process wrote.
C6_NoLostUpdate ==
    \A p \in Procs :
        /\ pc[p] = "w_cfg_rel" /\ pend[p] = NoErr =>
              Upserted(pre[p].secs, fs[config_file].secs,
                       config_profile(opt[p].profile), ExpectedConfig(p))
        /\ pc[p] = "w_cred_rel" /\ pend[p] = NoErr =>
              Upserted(pre[p].secs, fs[credentials_file].secs,
                       ProfileOf(p), ExpectedPlain(arg[p]))
        /\ pc[p] = "t_rel" /\ pend[p] = NoErr =>
              Upserted(pre[p].secs, fs[credentials_file].secs,
                       ProfileOf(p), ExpectedAsa(arg[p]))
        /\ Wrote(p) /\ Alone(p) /\ lock[config_file] = NoProc =>
              SectionHas(fs[config_file], config_profile(opt[p].profile),
                         ExpectedConfig(p))
        /\ Wrote(p) /\ Alone(p) /\ lock[credentials_file] = NoProc =>
              SectionHas(fs[credentials_file], ProfileOf(p), ExpectedPlain(AmazonOf(p)))
        /\ WroteToken(p) /\ Alone(p) /\ lock[credentials_file] = NoProc =>
              SectionHas(fs[credentials_file], ProfileOf(p), ExpectedAsa(AmazonOf(p)))

\* Every process has finished, one a write() and one a write_token_cache(), on
\* different profiles, over files that held other sections before.
C6_Witness ==
    /\ \A r \in Procs : pc[r] = "idle" /\ op[r] # "new"
    /\ \E p, q \in Procs : Wrote(p) /\ WroteToken(q) /\ ProfileOf(p) # ProfileOf(q)
    /\ "profile other" \in DOMAIN fs[config_file].secs
    /\ "other" \in DOMAIN fs[credentials_file].secs

\* The keys of section s that differ between old and new
ChangedKeys(old, new, s) ==
    LET o == IF s \in DOMAIN old THEN old[s] ELSE <<>>
        n == IF s \in DOMAIN new THEN new[s] ELSE <<>>
    IN  {k \in DOMAIN o \cup DOMAIN n :
            ~(k \in DOMAIN o /\ k \in DOMAIN n /\ o[k] = n[k])}

\* C7: the two key namespaces of the credentials section never collide.  The
\* flush of write() changes plain aws_* keys only, the flush of
\* write_token_cache() changes asa.* keys only, and when one process has
\* written credentials and another the token cache of the same profile, in
\* any interleaving, the section holds both.
C7_NamespacesDisjoint ==
    /\ \A p \in Procs :
          /\ pc[p] = "w_cred_rel" /\ pend[p] = NoErr =>
                ChangedKeys(pre[p].secs, fs[credentials_file].secs, ProfileOf(p))
                    \subseteq PlainKeys
          /\ pc[p] = "t_rel" /\ pend[p] = NoErr =>
                ChangedKeys(pre[p].secs, fs[credentials_file].secs, ProfileOf(p))
                    \subseteq AsaKeys
    /\ \A p, q \in Procs :
          /\ Wrote(p) /\ WroteToken(q) /\ ProfileOf(p) = ProfileOf(q)
          /\ \A r \in Procs \ {p, q} : ProfileOf(r) # ProfileOf(p)
          /\ lock[credentials_file] = NoProc
          => /\ SectionHas(fs[credentials_file], ProfileOf(p), ExpectedPlain(AmazonOf(p)))
             /\ SectionHas(fs[credentials_file], ProfileOf(p), ExpectedAsa(AmazonOf(q)))

\* write(record) and write_token_cache(record) have both finished on a profile
\* whose credentials section held a plain key and an asa.* key before.
C7_Witness ==
    \E p, q \in Procs :
        /\ Wrote(p) /\ WroteToken(q) /\ ProfileOf(p) = "work" /\ ProfileOf(q) = "work"
        /\ pc[p] = "idle" /\ pc[q] = "idle"
        /\ "custom" \in DOMAIN fs[credentials_file].secs["work"]

(***************************************************************************)
(* SpecCache: one process and its two caches, over every state the         *)
(* credentials file and the SAML cache file may be found in.               *)
(***************************************************************************)
Main == CHOOSE p \in Procs : \A q \in Procs : p <= q

\* The asa.* keys of a credentials section, with the given expiration string
\* (None: no expiration key) and the given access key (None: no such key)
TokenSection(access, expiration) ==
    [k \in {"asa.aws_secret_access_key", "asa.aws_session_token"}
            \cup (IF access = None THEN {} ELSE {"asa.aws_access_key_id"})
            \cup (IF expiration = None THEN {} ELSE {"asa.aws_session_expiration"}) |->
        CASE k = "asa.aws_access_key_id" -> access.v
          [] k = "asa.aws_session_expiration" -> expiration.v
          [] k = "asa.aws_secret_access_key" -> "oldsecret"
          [] OTHER -> "oldtoken"]

MalformedTime == "yesterday"

\* The credentials files the process may find
CredentialsDisks ==
    {NoFile, EmptyFile, OldCredentials}
        \cup {IniFile([s \in {"work"} |-> TokenSection(a, e)]) :
                a \in {None, PyStr("OLDASA")},
                e \in {None, PyStr(MalformedTime), PyStr(IsoFormat(NaiveTime(MaxTime))),
                       PyStr(IsoFormat(AwareTime(1))),
                       PyStr(IsoFormat(AwareTime(MaxTime)))}}

\* The SAML cache files the process may find
SamlDisks == {NoFile, TextFile(WellFormedBlob), TextFile(MalformedBlob)}

Blobs == {None, PyBytes(WellFormedBlob), PyBytes(MalformedBlob)}

InitCache ==
    /\ IdleProcs
    /\ env = DefaultCredentialsFile
    /\ now = 0
    /\ \E d \in CredentialsDisks, x \in SamlDisks :
          fs = [f \in Paths |-> IF f = credentials_file THEN d
                                ELSE IF f = saml_cache_file(PyStr(IdpUrl)) THEN x
                                ELSE NoFile]
    /\ \E u \in {None, PyStr(IdpUrl)} :
          opt = [p \in Procs |-> [OptionsOf(p, "work") EXCEPT !.login_url = u]]

NextCache ==
    \/ Tick
    \/ \E b \in Blobs : SetSamlCache(Main, b)
    \/ saml_cache(Main)
    \/ token_cache(Main)
    \/ read_saml_cache(Main)
    \/ read_token_cache(Main)
    \/ CallWriteTokenCache(Main, AmazonOf(Main))
    \/ TokenSteps(Main)

SpecCache == InitCache /\ [][NextCache]_vars

\* Process p runs the one-step operation name in this step
AtomicStep(p, name) ==
    /\ pc[p] = "idle" /\ pc'[p] = "idle" /\ op'[p] = name
    /\ now' = now
    /\ \A q \in Procs \ {p} : op'[q] = op[q] /\ pc'[q] = pc[q]

\* The record is usable at the given time
Usable(token, clock) ==
    /\ token # None
    /\ token.AccessKeyId # None
    /\ token.SecretAccessKey # None
    /\ token.Expiration # None
    /\ token.Expiration.t = "dt"
    /\ token.Expiration.v > clock

\* C2: the token_cache accessor returns the stored record if and only if it is
\* present, complete and expires strictly after now; in every other case it
\* returns absent and clears the stored record.
C2_TokenAccessor ==
    [][\A p \in Procs :
          AtomicStep(p, "token_cache") =>
             IF Usable(tok[p], now)
             THEN ret'[p] = tok[p] /\ tok'[p] = tok[p] /\ err'[p] = NoErr
             ELSE ret'[p] = None /\ tok'[p] = None /\ err'[p] = NoErr]_vars

\* C3: the saml_cache setter stores any blob as it is and leaves the disk
\* alone; the accessor returns the blob if it is valid and otherwise returns
\* absent and clears it; and a cleared blob stays absent until a blob is
\* assigned or read_saml_cache() loads one.
C3_SamlAccessor ==
    [][\A p \in Procs :
          /\ AtomicStep(p, "saml_cache=") =>
                saml'[p] = arg'[p] /\ fs' = fs /\ err'[p] = NoErr
          /\ AtomicStep(p, "saml_cache") =>
                /\ fs' = fs /\ err'[p] = NoErr
                /\ IF IsValidSamlAssertion(saml[p])
                   THEN ret'[p] = saml[p] /\ saml'[p] = saml[p]
                   ELSE ret'[p] = None /\ saml'[p] = None
          /\ saml[p] = None /\ saml'[p] # None =>
                op'[p] \in {"saml_cache=", "read_saml_cache"}]_vars

\* An invalid blob was assigned, and is stored as it is.
C3_Witness ==
    /\ op[Main] = "saml_cache=" /\ arg[Main] = PyBytes(MalformedBlob)
    /\ saml[Main] = PyBytes(MalformedBlob)

\* C10: read_saml_cache(), read_token_cache() and the two accessors complete
\* without error whatever the SAML cache file and the credentials section
\* hold, and an accessor returns absent when its cache is not usable.
C10_CacheNeverAborts ==
    [][\A p \in Procs :
          /\ \A name \in {"read_saml_cache", "read_token_cache", "saml_cache",
                          "token_cache"} :
                AtomicStep(p, name) => err'[p] = NoErr
          /\ AtomicStep(p, "token_cache") /\ ~Usable(tok[p], now) => ret'[p] = None
          /\ AtomicStep(p, "saml_cache") /\ ~IsValidSamlAssertion(saml[p])
                => ret'[p] = None]_vars

(***************************************************************************)
(* SpecFiles: one Configuration writes its options, a fresh Configuration  *)
(* reads profiles, one operation after the other, over every state the     *)
(* config file may be found in.                                            *)
(***************************************************************************)
Writer == Main
Reader == CHOOSE p \in Procs \ {Writer} : \A q \in Procs \ {Writer} : p <= q

MalformedWord == "maybe"
MalformedNumber == "12h"

\* A section of the config file with the given asa.ask_role and asa.duration
ConfigSection(ask, dur) ==
    [k \in {"asa.ask_role", "asa.duration", "asa.login_url", "region", "account"} |->
        CASE k = "asa.ask_role" -> ask
          [] k = "asa.duration" -> dur
          [] k = "asa.login_url" -> IdpUrl
          [] k = "region" -> "disk-region"
          [] OTHER -> "222"]

\* The config files the processes may find
ConfigDisks ==
    {NoFile, OldConfig,
     IniFile([s \in {"profile work"} |-> ConfigSection("yes", IntStr(MinDuration))]),
     IniFile([s \in {"profile work"} |-> ConfigSection(MalformedWord, IntStr(MinDuration))]),
     IniFile([s \in {"default"} |-> ConfigSection("False", MalformedNumber)])}

\* The options a Configuration may hold when it writes
WriterOptions ==
    {[DefaultOptions EXCEPT !.profile = PyStr(prof), !.region = reg, !.ask_role = PyBool(ask),
                            !.duration = PyInt(dur), !.login_url = url, !.role_arn = arn] :
        prof \in ProfileNames, reg \in {None, PyStr("eu-west-1")}, ask \in BOOLEAN,
        dur \in {MinDuration, max_duration}, url \in {None, PyStr(IdpUrl)},
        arn \in {None, PyStr(AwsArn)}}

AllIdle == \A p \in Procs : pc[p] = "idle"

InitFiles ==
    /\ IdleProcs
    /\ env = DefaultCredentialsFile
    /\ now = 0
    /\ \E c \in ConfigDisks :
          fs = [f \in Paths |-> IF f = config_file THEN c ELSE NoFile]
    /\ \E o \in WriterOptions :
          opt = [p \in Procs |-> IF p = Writer THEN o ELSE DefaultOptions]

NextFiles ==
    \/ AllIdle /\ CallWrite(Writer, None)
    \/ \E prof \in ProfileNames : AllIdle /\ CallRead(Reader, PyStr(prof))
    \/ \E p \in {Writer, Reader} :
          \/ EnsureConfig(p)
          \/ EnsureCredentials(p)
          \/ ReadParse(p)
          \/ WriteConfigAcquire(p)
          \/ WriteConfigRead(p)
          \/ WriteConfigOpen(p)
          \/ WriteConfigFlush(p)
          \/ WriteConfigRelease(p)

SpecFiles == InitFiles /\ [][NextFiles]_vars

\* The options read() assigns, and the keys it takes them from
ReadFields == {"ask_role", "duration", "login_url", "region", "role_arn", "account"}
KeyOf(field) ==
    CASE field = "region" -> "region"
      [] field = "account" -> "account"
      [] OTHER -> "asa." \o field

\* Process p ends a read() in this step
ReadStep(p) == pc[p] = "r_parse" /\ pc'[p] = "idle"

\* C4: after write() on profile P, read(P) on a fresh Configuration yields
\* region, ask_role, duration, login_url and role_arn equal, in value and in
\* type, to those the writer held, also when role_arn or region is absent.
C4_RoundTrip ==
    [][\A r, w \in Procs :
          /\ r # w /\ ReadStep(r) /\ Wrote(w)
          /\ opt[r] = DefaultOptions /\ arg[r] = opt[w].profile
          => \A f \in {"region", "ask_role", "duration", "login_url", "role_arn"} :
                opt'[r][f] = opt[w][f]]_vars

\* What a key of the config file holds, as the option it is read into
OnDisk(field, s) ==
    CASE field = "ask_role" ->
            IF Lower(s) \in TrueWords THEN PyBool(TRUE)
            ELSE IF Lower(s) \in FalseWords THEN PyBool(FALSE) ELSE None
      [] field = "duration" ->
            IF \E n \in KnownInts : IntStr(n) = s
            THEN PyInt(CHOOSE n \in KnownInts : IntStr(n) = s) ELSE None
      [] OTHER -> PyStr(s)

\* C5: read(profile) changes the in-memory state only so: when the section of
\* the profile exists, profile is set and each of ask_role, duration,
\* login_url, region, role_arn, account takes the on-disk value when its key
\* is present and keeps its value when it is absent; when the section does not
\* exist no option changes; the caches and the other options never change.
C5_ReadFrame ==
    [][\A p \in Procs :
          ReadStep(p) =>
            LET secs == fs[config_file].secs
                ps == config_profile(arg[p])
            IN  /\ saml'[p] = saml[p] /\ tok'[p] = tok[p]
                /\ \A f \in OptionNames \ (ReadFields \cup {"profile"}) :
                      opt'[p][f] = opt[p][f]
                /\ IF ps \notin DOMAIN secs THEN opt'[p] = opt[p]
                   ELSE /\ opt'[p].profile = arg[p]
                        /\ \A f \in ReadFields :
                              opt'[p][f] =
                                 IF KeyOf(f) \in DOMAIN secs[ps]
                                    /\ OnDisk(f, secs[ps][KeyOf(f)]) # None
                                 THEN OnDisk(f, secs[ps][KeyOf(f)])
                                 ELSE opt[p][f]]_vars

\* C9: read(profile) never raises because of what the section holds: a
\* malformed asa.ask_role or asa.duration is treated as absent and the option
\* keeps its previous value.
C9_ReadNeverRaises ==
    [][\A p \in Procs :
          ReadStep(p) =>
            LET secs == fs[config_file].secs
                ps == config_profile(arg[p])
            IN  /\ err'[p] = NoErr
                /\ \A f \in {"ask_role", "duration"} :
                      /\ ps \in DOMAIN secs
                      /\ KeyOf(f) \in DOMAIN secs[ps]
                      /\ OnDisk(f, secs[ps][KeyOf(f)]) = None
                      => opt'[p][f] = opt[p][f]]_vars

(***************************************************************************)
(* SpecOptions: the caller assigns options, of the right class or not, and *)
(* validates.                                                              *)
(***************************************************************************)
\* The values the caller may assign to an option
OptionValues(name) ==
    CASE name = "ask_role" -> {PyBool(TRUE), PyStr("yes")}
      [] name = "duration" ->
            {PyInt(MinDuration - 1), PyInt(MinDuration), PyInt(max_duration),
             PyInt(max_duration + 1), PyBool(TRUE), PyStr("900"), None}
      [] name = "auto_duration" -> {PyBool(FALSE), None}
      [] name = "login_url" -> {None, PyStr(IdpUrl)}
      [] name = "profile" -> {PyStr("default"), None}
      [] name = "region" -> {None, PyStr("eu-west-1")}
      [] name = "role_arn" -> {None, PyStr(AwsArn), PyStr(GovArn), PyStr("role/dev"),
                                  PyInt(12)}
      [] name = "quiet" -> {PyBool(FALSE), PyStr("no")}
      [] name = "account" -> {PyStr(""), None}
      [] name = "port" -> {PyInt(DefaultPort), PyStr("8000")}

AssignedOptions ==
    {"ask_role", "duration", "auto_duration", "login_url", "profile", "region",
     "role_arn", "quiet", "account", "port"}

InitOptions ==
    /\ IdleProcs
    /\ env = DefaultCredentialsFile
    /\ now = 0
    /\ fs = [f \in Paths |-> NoFile]
    /\ opt = [p \in Procs |-> DefaultOptions]

NextOptions ==
    \/ \E name \in AssignedOptions : \E value \in OptionValues(name) :
          SetOption(Main, name, value)
    \/ RaiseIfInvalid(Main)

SpecOptions == InitOptions /\ [][NextOptions]_vars

\* Every invariant that is not about duration holds
OthersValid(o) ==
    /\ o.ask_role.t = "bool"
    /\ o.auto_duration.t = "bool"
    /\ o.profile.t = "str"
    /\ o.region.t = "str"
    /\ o.login_url # None
    /\ o.role_arn = None \/ (o.role_arn.t = "str" /\ o.role_arn.v \in {AwsArn, GovArn})
    /\ o.quiet.t = "bool"
    /\ o.account.t = "str"
    /\ o.port.t = "int"

\* C8: with every other option valid, raise_if_invalid() succeeds if and only
\* if duration is an integer with 900 <= duration <= 43200; it fails for 899,
\* for 43201 and for a duration that is no integer, a boolean included.
C8_DurationRange ==
    \A p \in Procs :
        op[p] = "raise_if_invalid" /\ pc[p] = "idle" /\ OthersValid(opt[p]) =>
            (err[p] = NoErr <=>
                /\ opt[p].duration.t = "int"
                /\ 900 <= opt[p].duration.v
                /\ opt[p].duration.v <= 43200)

\* The validation succeeded on the smallest duration, every other option valid.
C8_Witness ==
    /\ op[Main] = "raise_if_invalid" /\ err[Main] = NoErr
    /\ opt[Main].duration = PyInt(900) /\ OthersValid(opt[Main])

(***************************************************************************)
(* SpecLocks: every process assigns a SAML blob or not and then runs one   *)
(* of write(), write_token_cache() and write_saml_cache(), all at once;    *)
(* the first process may be given what makes an operation fail.            *)
(***************************************************************************)
SamlSteps(p) ==
    \/ SamlAcquire(p)
    \/ SamlOpen(p)
    \/ SamlFlush(p)
    \/ SamlRelease(p)

\* A file that is not in the INI format
Garbage == TextFile("garbage")

\* A credential record without expiration
BadRecord(p) == [AmazonOf(p) EXCEPT !.expiration = None]

UserOf(p) == "user" \o IntStr(p)

\* The config file and the credentials file the processes find
LockDisks ==
    {<<NoFile, NoFile>>, <<OldConfig, OldCredentials>>, <<Garbage, OldCredentials>>,
     <<OldConfig, Garbage>>}

\* The options of the first process: right, without profile, without login_url
MainOptions ==
    {OptionsOf(Main, UserOf(Main)),
     [OptionsOf(Main, UserOf(Main)) EXCEPT !.profile = None],
     [OptionsOf(Main, UserOf(Main)) EXCEPT !.login_url = None]}

BlobsOf(p) ==
    IF p = Main THEN {PyBytes(WellFormedBlob), PyStr(WellFormedBlob)}
    ELSE {PyBytes(WellFormedBlob)}

RecordsOf(p) ==
    IF p = Main THEN {None, AmazonOf(p), BadRecord(p)} ELSE {AmazonOf(p)}

InitLocks ==
    /\ IdleProcs
    /\ env = DefaultCredentialsFile
    /\ now = 0
    /\ \E d \in LockDisks :
          fs = [f \in Paths |-> IF f = config_file THEN d[1]
                                ELSE IF f = credentials_file THEN d[2] ELSE NoFile]
    /\ \E o \in MainOptions :
          opt = [p \in Procs |-> IF p = Main THEN o ELSE OptionsOf(p, UserOf(p))]

LockSteps(p) == WriteSteps(p) \/ TokenSteps(p) \/ SamlSteps(p)

NextLocks ==
    \E p \in Procs :
        \/ op[p] = "new" /\ \E b \in BlobsOf(p) : SetSamlCache(p, b)
        \/ op[p] = "new" /\ \E a \in RecordsOf(p) : CallWrite(p, a)
        \/ op[p] = "new" /\ \E a \in RecordsOf(p) : CallWriteTokenCache(p, a)
        \/ op[p] \in {"new", "saml_cache="} /\ CallWriteSamlCache(p)
        \/ LockSteps(p)

SpecLocks == InitLocks /\ [][NextLocks]_vars

(***************************************************************************)
(* SpecLive: the processes of one user, all with the same options and the  *)
(* same record, each running write(), write_token_cache() or, after it     *)
(* assigned a blob, write_saml_cache(), under a scheduler that does not    *)
(* stop while some process can take a step of its operation.               *)
(***************************************************************************)
InitLive ==
    /\ IdleProcs
    /\ env = DefaultCredentialsFile
    /\ now = 0
    /\ fs = [f \in Paths |-> IF f = config_file THEN OldConfig
                             ELSE IF f = credentials_file THEN OldCredentials
                             ELSE NoFile]
    /\ opt = [p \in Procs |-> OptionsOf(Main, "work")]

AnyLockStep == \E p \in Procs : LockSteps(p)

NextLive ==
    \/ \E p \in Procs :
          \/ op[p] = "new" /\ SetSamlCache(p, PyBytes(WellFormedBlob))
          \/ op[p] = "new" /\ CallWrite(p, AmazonOf(Main))
          \/ op[p] = "new" /\ CallWriteTokenCache(p, AmazonOf(Main))
          \/ op[p] = "saml_cache=" /\ CallWriteSamlCache(p)
    \/ AnyLockStep

SpecLive == InitLive /\ [][NextLive]_vars /\ WF_vars(AnyLockStep)

\* Process p takes the step
Steps(p) == pc'[p] # pc[p] \/ op'[p] # op[p]

HoldsNone(p) == \A f \in Paths : p \notin lock[f]

\* C11: whenever a process creates, truncates or writes a file, that process
\* holds the lock of the file.
C11_MutationsUnderLock ==
    [][\A f \in Paths :
          fs'[f] # fs[f] => \E p \in Procs : Steps(p) /\ lock[f] = {p}]_vars

\* C12: a process that has returned from, or failed in, write(),
\* write_saml_cache() or write_token_cache() holds no file lock, whichever step
\* failed after the lock was taken.
C12_LocksReleased ==
    \A p \in Procs : pc[p] = "idle" => HoldsNone(p)

\* One process failed to decode its blob inside the SAML cache lock, another
\* failed to parse the config file inside the config lock; both have returned.
C12_Witness ==
    \E p, q \in Procs :
        /\ pc[p] = "idle" /\ op[p] = "write_saml_cache" /\ err[p] = "AttributeError"
        /\ pc[q] = "idle" /\ op[q] = "write" /\ err[q] = "ParsingError"

PreconditionFails(p) ==
    \/ op[p] = "write" /\ opt[p].profile = None
    \/ op[p] = "write_token_cache" /\ (opt[p].profile = None \/ arg[p] = None)
    \/ op[p] = "write_saml_cache" /\ saml[p] # None /\ opt[p].login_url = None

\* C14: an operation whose precondition fails changes no file and takes no
\* lock at any of its steps, and ends with the failure.
C14_PreconditionBeforeEffect ==
    [][\A p \in Procs :
          pc[p] # "idle" /\ PreconditionFails(p) /\ pc'[p] # pc[p] =>
             /\ fs' = fs /\ lock' = lock
             /\ pc'[p] = "idle" => err'[p] = "AssertionError"]_vars

AcquirePcs == {"w_cfg_acq", "w_cred_acq", "t_acq", "s_acq"}

\* C17: a process waits for a lock only while it holds none; while an
\* operation is in progress some process in an operation can take a step; and
\* under fair scheduling every started operation completes and every lock that
\* is held is released: as every process runs finitely many operations, in
\* the end no operation is in progress and no lock is held, for good.
C17_NoDeadlockAndProgress ==
    /\ [](\A p \in Procs : pc[p] \in AcquirePcs => HoldsNone(p))
    /\ []((\E p \in Procs : pc[p] # "idle")
             => \E p \in Procs : pc[p] # "idle" /\ ENABLED LockSteps(p))
    /\ <>[](\A p \in Procs : pc[p] = "idle" /\ HoldsNone(p))

\* A process waits for a lock that another process holds.
C17_Witness ==
    \E p, q \in Procs :
        /\ p # q /\ pc[p] \in AcquirePcs /\ ~ENABLED LockSteps(p)
        /\ ~HoldsNone(q)

(***************************************************************************)
(* SpecSaml: one Configuration loads, reads, assigns and flushes its SAML  *)
(* cache and writes its configuration, whatever the SAML cache file holds  *)
(* and wherever the session keeps the credentials file.                    *)
(***************************************************************************)
InitSaml ==
    /\ IdleProcs
    /\ env \in CredentialPaths
    /\ now = 0
    /\ opt = [p \in Procs |-> OptionsOf(p, "work")]
    /\ \E d \in {NoFile, OldCredentials}, x \in SamlDisks :
          fs = [f \in Paths |-> IF f = config_file THEN OldConfig
                                ELSE IF f = credentials_file THEN d
                                ELSE IF f = saml_cache_file(PyStr(IdpUrl)) THEN x
                                ELSE NoFile]

NextSaml ==
    \/ \E b \in Blobs : SetSamlCache(Main, b)
    \/ saml_cache(Main)
    \/ read_saml_cache(Main)
    \/ CallWriteSamlCache(Main)
    \/ CallWrite(Main, AmazonOf(Main))
    \/ WriteSteps(Main)
    \/ SamlSteps(Main)

SpecSaml == InitSaml /\ [][NextSaml]_vars

\* C15: once the accessor has cleared an invalid blob, the flush purges it
\* from disk: when write_saml_cache() or write() returns and the blob in
\* memory is absent, the SAML cache file does not hold an invalid blob.
C15_InvalidBlobPurged ==
    [][\A p \in Procs :
          /\ op[p] \in {"write_saml_cache", "write"}
          /\ pc[p] # "idle" /\ pc'[p] = "idle" /\ err'[p] = NoErr
          /\ saml[p] = None /\ opt[p].login_url # None
          => fs'[saml_cache_file(opt[p].login_url)].text # MalformedBlob]_vars

\* C20: the SAML cache path differs from the path of the credentials file and
\* from the path of the config file, whatever the credentials file is called,
\* so that the truncation and the write of write_saml_cache() leave both
\* files as they are.
C20_SamlPathApart ==
    [][\A p \in Procs :
          op[p] = "write_saml_cache" /\ pc[p] \in {"s_open", "s_write"}
          /\ pc'[p] # pc[p]
          => /\ saml_cache_file(opt[p].login_url) \notin {credentials_file, config_file}
             /\ fs'[credentials_file] = fs[credentials_file]
             /\ fs'[config_file] = fs[config_file]]_vars

\* The invariants of the options, in the order in which the validation is
\* said to check them
CheckOrder ==
    <<"ask_role", "duration type", "duration min", "duration max", "auto_duration",
      "profile", "region", "login_url", "role_arn type", "role_arn prefix", "quiet",
      "account", "port">>

\* The options o violate the invariant c
Violates(o, c) ==
    CASE c = "ask_role" -> o.ask_role.t # "bool"
      [] c = "duration type" -> o.duration.t # "int"
      [] c = "duration min" -> ~(o.duration.t = "int" /\ o.duration.v >= 900)
      [] c = "duration max" -> ~(o.duration.t = "int" /\ o.duration.v <= 43200)
      [] c = "auto_duration" -> o.auto_duration.t # "bool"
      [] c = "profile" -> o.profile.t # "str"
      [] c = "region" -> o.region.t # "str"
      [] c = "login_url" -> o.login_url.t = "none"
      [] c = "role_arn type" -> o.role_arn.t \notin {"none", "str"}
      [] c = "role_arn prefix" ->
            o.role_arn.t = "str" /\ o.role_arn.v \notin {AwsArn, GovArn}
      [] c = "quiet" -> o.quiet.t # "bool"
      [] c = "account" -> o.account.t # "str"
      [] c = "port" -> o.port.t # "int"

\* C16: raise_if_invalid() reports the first violated invariant in the fixed
\* order (for the default options the region, not the login_url), succeeds
\* when none is violated, and changes no option and neither cache.
C16_FirstViolationReported ==
    [][\A p \in Procs :
          AtomicStep(p, "raise_if_invalid") =>
            LET bad == {i \in DOMAIN CheckOrder : Violates(opt[p], CheckOrder[i])}
                first == CHOOSE i \in bad : \A j \in bad : i <= j
            IN  /\ err'[p] = IF bad = {} THEN NoErr ELSE CheckOrder[first]
                /\ opt[p] = DefaultOptions => err'[p] = "region"
                /\ opt' = opt /\ saml' = saml /\ tok' = tok]_vars

\* The default options, which violate the region and the login_url invariant,
\* were validated and the region was reported.
C16_Witness ==
    /\ op[Main] = "raise_if_invalid" /\ opt[Main] = DefaultOptions
    /\ Violates(opt[Main], "login_url") /\ err[Main] = "region"

(***************************************************************************)
(* SpecToken: one Configuration writes credential records that expire in   *)
(* the future, with write() and with write_token_cache(); a second one     *)
(* with the same profile loads and reads the token cache as time passes.   *)
(***************************************************************************)
TokenRecords ==
    {[AmazonOf(Main) EXCEPT !.expiration = AwareTime(e)] : e \in Times \ {0}}

InitToken ==
    /\ IdleProcs
    /\ env = DefaultCredentialsFile
    /\ now = 0
    /\ opt = [p \in Procs |-> OptionsOf(Main, "work")]
    /\ \E d \in {NoFile, OldCredentials} :
          fs = [f \in Paths |-> IF f = credentials_file THEN d ELSE NoFile]

NextToken ==
    \/ Tick
    \/ \E a \in TokenRecords : a.expiration.v > now /\ CallWrite(Writer, a)
    \/ \E a \in TokenRecords : a.expiration.v > now /\ CallWriteTokenCache(Writer, a)
    \/ WriteSteps(Writer)
    \/ TokenSteps(Writer)
    \/ read_token_cache(Reader)
    \/ token_cache(Reader)

SpecToken == InitToken /\ [][NextToken]_vars

\* The token record of a credential record
RecordOf(amz) ==
    [AccessKeyId |-> amz.access_key_id, SecretAccessKey |-> amz.secret_access_key,
     SessionToken |-> amz.session_token, Expiration |-> amz.expiration]

\* The section of the profile of p in the credentials file has no asa.* key
NoAsaKeys(p) ==
    /\ ProfileOf(p) \in DOMAIN fs[credentials_file].secs
    /\ DOMAIN fs[credentials_file].secs[ProfileOf(p)] \cap AsaKeys = {}

\* C19: once write_token_cache(record) has returned, read_token_cache() on a
\* Configuration with the same profile loads a record with the AccessKeyId,
\* SecretAccessKey, SessionToken and Expiration of the written one, and the
\* accessor returns it while the expiration is in the future; a section that
\* only write(record) has written loads no usable record and the accessor
\* returns absent.
C19_TokenRoundTrip ==
    [][\A r, w \in Procs :
          /\ (/\ r # w /\ WroteToken(w) /\ ProfileOf(r) = ProfileOf(w)
              /\ AtomicStep(r, "read_token_cache"))
             => tok'[r] = RecordOf(arg[w]) /\ err'[r] = NoErr
          /\ (/\ r # w /\ WroteToken(w) /\ tok[r] = RecordOf(arg[w])
              /\ now < arg[w].expiration.v /\ AtomicStep(r, "token_cache"))
             => ret'[r] = RecordOf(arg[w]) /\ err'[r] = NoErr
          /\ (/\ r # w /\ Wrote(w) /\ NoAsaKeys(w) /\ ProfileOf(r) = ProfileOf(w)
              /\ AtomicStep(r, "read_token_cache"))
             => /\ err'[r] = NoErr
                /\ tok'[r] # None => ~Usable(tok'[r], now)
          /\ (/\ tok[r] # None /\ tok[r].Expiration = None
              /\ AtomicStep(r, "token_cache"))
             => ret'[r] = None /\ tok'[r] = None /\ err'[r] = NoErr]_vars

\* The second Configuration read back, before it expires, the record the
\* first one wrote.
C19_Witness ==
    /\ WroteToken(Writer) /\ op[Reader] = "token_cache"
    /\ ret[Reader] = RecordOf(arg[Writer]) /\ now > 0

(***************************************************************************)
(* SpecRace: one Configuration runs write(record) and write_token_cache()  *)
(* step by step while a second one, which takes no lock, runs read() and   *)
(* read_token_cache() at any moment, also between the truncation of a file *)
(* and the write of its new contents.                                      *)
(***************************************************************************)
RaceOptions ==
    {OptionsOf(Writer, "work"), [OptionsOf(Writer, "work") EXCEPT !.region = None]}

InitRace ==
    /\ IdleProcs
    /\ env = DefaultCredentialsFile
    /\ now = 0
    /\ \E c \in {NoFile, OldConfig}, d \in {NoFile, OldCredentials} :
          fs = [f \in Paths |-> IF f = config_file THEN c
                                ELSE IF f = credentials_file THEN d ELSE NoFile]
    /\ \E o \in RaceOptions :
          opt = [p \in Procs |-> IF p = Writer THEN o ELSE OptionsOf(p, "work")]

NextRace ==
    \/ CallWrite(Writer, AmazonOf(Writer))
    \/ CallWriteTokenCache(Writer, AmazonOf(Writer))
    \/ WriteSteps(Writer)
    \/ TokenSteps(Writer)
    \/ \E prof \in {"work", "absent"} : CallRead(Reader, PyStr(prof))
    \/ EnsureConfig(Reader)
    \/ EnsureCredentials(Reader)
    \/ ReadParse(Reader)
    \/ read_token_cache(Reader)

SpecRace == InitRace /\ [][NextRace]_vars

\* The options write() stores in the config section
ConfigKeyFields == {"region", "ask_role", "duration", "login_url", "role_arn"}

\* The values a write, finished or in progress, has put on disk for a field
\* of the profile: those of the tools that wrote the files before, and those
\* of the writer
WrittenOptions(field, profile) ==
    LET old == IF config_profile(profile) \in DOMAIN OldConfig.secs
               THEN OldConfig.secs[config_profile(profile)] ELSE <<>>
    IN  {OnDisk(field, old[k]) : k \in DOMAIN old \cap {KeyOf(field)}}
          \cup {OnDisk(field, Str(opt[Writer][f])) : f \in ConfigKeyFields \cap {field}}

WrittenTokens(field) ==
    {None, PyStr("OLDASA"), RecordOf(AmazonOf(Writer))[field]}

====
